---- MODULE Spec2Model ----
(***************************************************************************)
(* State machine of the portfolio single-page application: the Root Shell  *)
(* (Home) with its two state fields, the eight full-page overlay panels    *)
(* with their local state, the keydown listeners and the body scroll lock  *)
(* installed by the panels' effects.                                       *)
(*                                                                         *)
(* One action is one browser event: the handler runs, React renders and    *)
(* commits, and the effects of the commit (cleanups first, then creations, *)
(* children before parents) have run when the action ends.                 *)
(***************************************************************************)
EXTENDS Integers, Sequences, FiniteSets, TLC

VARIABLES
    lang,                \* Home: useState<Language>("en")
    activeModal,         \* Home: useState<string | null>(null)
    mounted,             \* the overlay components currently mounted
    selectedItem,        \* GalleryModal: index of the lightbox item, NoItem for null
    playingVideo,        \* VideosModal: id of the playing video, NoVideo for null
    imageErrors,         \* VideosModal: the video ids whose flag is true
    viewingCertificate,  \* CertificatesModal: {name, id}, NoCert for null
    showResume,          \* ContactModal
    pdfError,            \* ContactModal
    statsExpanded,       \* LeftNavigation: useState(true)
    showResumeViewer,    \* RightNavigation: useState(false)
    navPdfError,         \* RightNavigation: pdfError, useState(false)
    activeCategory,      \* GallerySection: useState("All")
    isModalOpen,         \* GallerySection: useState(false)
    page,                \* the component the page renders: Home or GallerySection
    listeners,           \* window keydown listeners, in registration order
    bodyOverflow,        \* document.body.style.overflow
    windowOpened,        \* the URL the last event passed to window.open, "" if none
    lastEvent,           \* the event handled last
    pre                  \* the shell state the last event was handled in

vars == <<lang, activeModal, mounted, selectedItem, playingVideo, imageErrors,
          viewingCertificate, showResume, pdfError, statsExpanded, showResumeViewer,
          navPdfError, activeCategory, isModalOpen, page, listeners, bodyOverflow,
          windowOpened, lastEvent, pre>>

-----------------------------------------------------------------------------
(* Static data *)

NULL == "null"

Languages == {"en", "de"}

\* The identifiers that have a render branch in Home.
Panels == {"education", "experience", "skills", "certificates",
           "videos", "gallery", "references", "contact"}

\* LeftSections whose fourth entry carries the identifier "certificate".
LeftSectionsMisnamed == <<"education", "experience", "skills", "certificate">>

LeftSections == <<"education", "experience", "skills", "certificates">>

\* RightSections whose second entry carries the identifier "projects".
RightSectionsProjects == <<"videos", "projects", "references", "contact">>

RightSections == <<"videos", "gallery", "references", "contact">>

NoItem == 0

\* content.items of GalleryModal: only type and link matter to the logic.
\* link "" stands for an absent link (undefined, falsy).
GalleryItems ==
    << [type |-> "image", link |-> "https://damien-dennis-birthday-app.vercel.app/"],
       [type |-> "image", link |-> "https://kingstechnologies.netlify.app/"],
       [type |-> "image", link |-> "https://mbs-advocates-app.vercel.app/"],
       [type |-> "image", link |-> "https://damien-portfolio-nine.vercel.app/"],
       [type |-> "image", link |-> "https://doreen-birthday-app.vercel.app/"],
       [type |-> "image", link |-> "https://hematrikan.com/"],
       [type |-> "video", link |-> ""],
       [type |-> "image", link |-> ""],
       [type |-> "image", link |-> ""],
       [type |-> "video", link |-> ""],
       [type |-> "video", link |-> ""],
       [type |-> "video", link |-> ""],
       [type |-> "image", link |-> ""],
       [type |-> "image", link |-> ""],
       [type |-> "image", link |-> ""],
       [type |-> "video", link |-> ""],
       [type |-> "video", link |-> ""],
       [type |-> "video", link |-> ""],
       [type |-> "video", link |-> ""] >>

HasLink(i) == GalleryItems[i].link # ""

NoVideo == -1

\* videos of VideosModal: id and src; youtube is the value of
\* src.includes("youtube.com") || src.includes("youtu.be") on that src.
Videos ==
    << [id |-> 1, src |-> "https://www.youtube.com/watch?v=2_zdcnN_9KQ", youtube |-> TRUE],
       [id |-> 2, src |-> "/assets/videos/10.mp4", youtube |-> FALSE] >>

VideoIds == {Videos[i].id : i \in DOMAIN Videos}

\* A number | null used as a condition: null and 0 are falsy.
TruthyNumber(n) == n # NoVideo /\ n # 0

NoCert == [name |-> <<>>, id |-> NULL]

\* content.achievements of CertificatesModal.
Achievements ==
    << [id |-> "hackathon-winner", hasCertificate |-> FALSE, certificateId |-> ""],
       [id |-> "nasa-certificate", hasCertificate |-> TRUE, certificateId |-> "nasa-certificate"],
       [id |-> "eu-certificate", hasCertificate |-> TRUE, certificateId |-> "eu-certificate"] >>

\* The overlay components: the eight panels and the certificate viewer, which is
\* a child of the certificates panel.
Components == Panels \cup {"certviewer"}

\* Effects are created children first.
MountOrder == <<"certviewer", "education", "experience", "skills", "certificates",
                "videos", "gallery", "references", "contact">>

-----------------------------------------------------------------------------
(* The effect of each overlay component: whether it locks the body scroll   *)
(* (overflow = "hidden"), whether its cleanup restores it (overflow =       *)
(* "unset"), and its dependency array ("inner" is the component's inner     *)
(* state: selectedItem, playingVideo, showResume, viewingCertificate).      *)

EducationModalEffect == [locks |-> FALSE, restores |-> FALSE, deps |-> {"onClose"}]

\* ExperienceModal's effect with a cleanup that leaves overflow as it is.
ExperienceModalEffectNoRestore == [locks |-> TRUE, restores |-> FALSE, deps |-> {"onClose"}]

ExperienceModalEffect == [locks |-> TRUE, restores |-> TRUE, deps |-> {"onClose"}]

SkillsModalEffect == [locks |-> FALSE, restores |-> FALSE, deps |-> {"onClose"}]

CertificatesModalEffect == [locks |-> TRUE, restores |-> TRUE, deps |-> {"onClose", "inner"}]

CertificateViewerModalEffect == [locks |-> TRUE, restores |-> TRUE, deps |-> {"onClose"}]

\* VideosModal's effect with playingVideo missing from the dependency array.
VideosModalEffectStale == [locks |-> FALSE, restores |-> FALSE, deps |-> {"onClose"}]

VideosModalEffect == [locks |-> FALSE, restores |-> FALSE, deps |-> {"onClose", "inner"}]

\* GalleryModal's effect with selectedItem missing from the dependency array.
GalleryModalEffectStale == [locks |-> TRUE, restores |-> TRUE, deps |-> {"onClose"}]

GalleryModalEffect == [locks |-> TRUE, restores |-> TRUE, deps |-> {"onClose", "inner"}]

ReferencesModalEffect == [locks |-> FALSE, restores |-> FALSE, deps |-> {"onClose"}]

ContactModalEffect == [locks |-> TRUE, restores |-> TRUE, deps |-> {"onClose", "inner"}]

EffectOf(c) ==
    CASE c = "education" -> EducationModalEffect
      [] c = "experience" -> ExperienceModalEffect
      [] c = "skills" -> SkillsModalEffect
      [] c = "certificates" -> CertificatesModalEffect
      [] c = "certviewer" -> CertificateViewerModalEffect
      [] c = "videos" -> VideosModalEffect
      [] c = "gallery" -> GalleryModalEffect
      [] c = "references" -> ReferencesModalEffect
      [] c = "contact" -> ContactModalEffect

-----------------------------------------------------------------------------
(* The keydown handlers. Each gets the value its closure captured (whether  *)
(* the inner state was truthy in the render that registered it) and gives   *)
(* the set of calls it makes on Escape.                                     *)

GalleryHandleEsc(captured) ==
    IF captured THEN {"setSelectedItem(null)"} ELSE {"onClose"}

VideosHandleEsc(captured) ==
    IF captured THEN {"setPlayingVideo(null)"} ELSE {"onClose"}

\* ContactModal's handler doing nothing while the resume viewer is open.
ContactHandleEscIgnoresViewer(captured) ==
    IF captured THEN {} ELSE {"onClose"}

ContactHandleEsc(captured) ==
    IF captured THEN {"setShowResume(false)"} ELSE {"onClose"}

\* CertificatesModal's handler without the test of viewingCertificate.
CertificatesHandleEscUnguarded(captured) == {"onClose"}

CertificatesHandleEsc(captured) ==
    IF ~captured THEN {"onClose"} ELSE {}

\* The viewer's onClose is () => setViewingCertificate(null).
CertificateViewerHandleEsc == {"setViewingCertificate(null)"}

EducationHandleEsc == {"onClose"}

ExperienceHandleEscape == {"onClose"}

SkillsHandleEsc == {"onClose"}

\* ReferencesModal without the Escape binding.
ReferencesHandleEscNone == {}

ReferencesHandleEsc == {"onClose"}

HandleEsc(l) ==
    CASE l.owner = "gallery" -> GalleryHandleEsc(l.inner)
      [] l.owner = "videos" -> VideosHandleEsc(l.inner)
      [] l.owner = "contact" -> ContactHandleEsc(l.inner)
      [] l.owner = "certificates" -> CertificatesHandleEsc(l.inner)
      [] l.owner = "certviewer" -> CertificateViewerHandleEsc
      [] l.owner = "education" -> EducationHandleEsc
      [] l.owner = "experience" -> ExperienceHandleEscape
      [] l.owner = "skills" -> SkillsHandleEsc
      [] l.owner = "references" -> ReferencesHandleEsc

-----------------------------------------------------------------------------
(* The Root Shell's operations, on a record of the state fields *)

Cur == [lang |-> lang, activeModal |-> activeModal, selectedItem |-> selectedItem,
        playingVideo |-> playingVideo, imageErrors |-> imageErrors,
        viewingCertificate |-> viewingCertificate, showResume |-> showResume,
        pdfError |-> pdfError, statsExpanded |-> statsExpanded,
        showResumeViewer |-> showResumeViewer, navPdfError |-> navPdfError,
        activeCategory |-> activeCategory, isModalOpen |-> isModalOpen]

\* toggleLanguage on a Home whose panels are keyed by the language, so that a
\* toggle mounts them anew.
toggleLanguageRemounts(u) ==
    [u EXCEPT !.lang = IF u.lang = "en" THEN "de" ELSE "en",
              !.selectedItem = NoItem, !.playingVideo = NoVideo, !.imageErrors = {},
              !.viewingCertificate = NoCert, !.showResume = FALSE, !.pdfError = FALSE]

\* toggleLanguage that sets German whatever the language is.
toggleLanguageOneWay(u) == [u EXCEPT !.lang = "de"]

\* onToggleLang: setLang(lang === "en" ? "de" : "en")
toggleLanguage(u) == [u EXCEPT !.lang = IF u.lang = "en" THEN "de" ELSE "en"]

\* openSection that ignores an identifier without a render branch.
openSectionValidated(u, id) == IF id \in Panels THEN [u EXCEPT !.activeModal = id] ELSE u

\* openSection that also resets the language.
openSectionResetsLang(u, id) == [u EXCEPT !.activeModal = id, !.lang = "en"]

\* onNavigate / onOpenExperience: setActiveModal(section)
openSection(u, id) == [u EXCEPT !.activeModal = id]

\* closeOverlay that reopens the experience panel when nothing is open.
closeOverlayFlips(u) ==
    [u EXCEPT !.activeModal = IF @ = NULL THEN "experience" ELSE NULL]

\* onClose: setActiveModal(null)
closeOverlay(u) == [u EXCEPT !.activeModal = NULL]

\* GallerySection's onClose: setIsModalOpen(false)
closeGalleryModal(u) == [u EXCEPT !.isModalOpen = FALSE]

\* The onClose prop of the mounted panel: Home's, or GallerySection's for the
\* GalleryModal it renders.
onClose(u) == IF page = "GallerySection" THEN closeGalleryModal(u) ELSE closeOverlay(u)

-----------------------------------------------------------------------------
(* Render and commit *)

\* Rendered with the gallery branch testing activeModal !== null.
RenderedGalleryAlways(am) ==
    {p \in Panels : am = p} \cup (IF am # NULL THEN {"gallery"} ELSE {})

\* Rendered with a default branch showing the education panel for any other
\* string.
RenderedDefaultBranch(am) ==
    IF am = NULL THEN {}
    ELSE IF am \in Panels THEN {am}
    ELSE {"education"}

\* The render branches of Home: activeModal === "<id>" && <XModal .../>
Rendered(am) == {p \in Panels : am = p}

\* The panels in the tree for state record u: those of Home's render
\* branches, or the GalleryModal of GallerySection,
\* {isModalOpen && <GalleryModal .../>}.
PanelsRendered(u) ==
    IF page = "Home" THEN Rendered(u.activeModal)
    ELSE IF u.isModalOpen THEN {"gallery"} ELSE {}

\* Whether the inner state of component c is truthy in state record u.
InnerOpen(c, u) ==
    CASE c = "gallery" -> u.selectedItem # NoItem
      [] c = "videos" -> TruthyNumber(u.playingVideo)
      [] c = "contact" -> u.showResume
      [] c = "certificates" -> u.viewingCertificate # NoCert
      [] OTHER -> FALSE

\* The value of the inner state an effect lists in its dependency array.
InnerValue(c, u) ==
    CASE c = "gallery" -> <<u.selectedItem>>
      [] c = "videos" -> <<u.playingVideo>>
      [] c = "contact" -> <<u.showResume>>
      [] c = "certificates" -> <<u.viewingCertificate>>
      [] OTHER -> <<>>

\* Settle that keeps the local state of a panel that leaves the tree.
SettleKeepsLocalState(u) == u

\* The state record after the commit of update u: the local state of a panel
\* that is not kept mounted is discarded, a newly mounted panel starts from its
\* useState defaults.
Settle(u) ==
    LET kept(p) == p \in mounted /\ p \in PanelsRendered(u)
    IN  [u EXCEPT
            !.selectedItem = IF kept("gallery") THEN @ ELSE NoItem,
            !.playingVideo = IF kept("videos") THEN @ ELSE NoVideo,
            !.imageErrors = IF kept("videos") THEN @ ELSE {},
            !.viewingCertificate = IF kept("certificates") THEN @ ELSE NoCert,
            !.showResume = IF kept("contact") THEN @ ELSE FALSE,
            !.pdfError = IF kept("contact") THEN @ ELSE FALSE]

\* The components in the tree after the commit of the settled record s:
\* {viewingCertificate && <CertificateViewerModal .../>} inside the
\* certificates panel.
Tree(s) ==
    PanelsRendered(s) \cup
    (IF "certificates" \in PanelsRendered(s) /\ s.viewingCertificate # NoCert
     THEN {"certviewer"} ELSE {})

\* Home re-renders when one of its state fields changes; every render makes
\* new onClose arrow functions.
HomeRerendered(s) == s.lang # lang \/ s.activeModal # activeModal

\* GallerySection re-renders when its language prop or one of its state fields
\* changes; every render makes a new onClose arrow function.
GallerySectionRerendered(s) ==
    s.lang # lang \/ s.activeCategory # activeCategory \/ s.isModalOpen # isModalOpen

\* Whether the effect of a component that stays mounted runs again.
EffectReruns(c, s) ==
    LET panelRerendered(p) == HomeRerendered(s) \/ InnerValue(p, s) # InnerValue(p, Cur)
        onCloseChanged == IF c = "certviewer" THEN panelRerendered("certificates")
                          ELSE IF page = "GallerySection"
                               THEN GallerySectionRerendered(s)
                          ELSE HomeRerendered(s)
    IN  \/ "onClose" \in EffectOf(c).deps /\ onCloseChanged
        \/ "inner" \in EffectOf(c).deps /\ InnerValue(c, s) # InnerValue(c, Cur)

Ev(t, s, n) == [type |-> t, id |-> s, n |-> n]

\* What event ev finds: the shell state, whether an inner viewer is open, and
\* whether the event handled last was of the same type.
Before(ev) == [lang |-> lang, activeModal |-> activeModal,
               inner |-> \E p \in Panels : InnerOpen(p, Cur),
               repeat |-> lastEvent.type = ev.type]

\* The commit of update u for event ev which asked window.open for url.
\* (The settled record, the tree and the set of effects that run again are
\* bound as values, so that they are computed once.)
Commit(u, ev, url) ==
    \E s \in {Settle(u)} :
    \E tree \in {Tree(s)} :
    \E rerun \in {{c \in tree \cap mounted : EffectReruns(c, s)}} :
    LET destroyed == (mounted \ tree) \cup rerun
        created == (tree \ mounted) \cup rerun
        Stays(l) == l.owner \notin destroyed
        IsCreated(c) == c \in created
        fresh == [i \in DOMAIN SelectSeq(MountOrder, IsCreated) |->
                    [owner |-> SelectSeq(MountOrder, IsCreated)[i],
                     inner |-> InnerOpen(SelectSeq(MountOrder, IsCreated)[i], s)]]
    IN  /\ lang' = s.lang
        /\ activeModal' = s.activeModal
        /\ selectedItem' = s.selectedItem
        /\ playingVideo' = s.playingVideo
        /\ imageErrors' = s.imageErrors
        /\ viewingCertificate' = s.viewingCertificate
        /\ showResume' = s.showResume
        /\ pdfError' = s.pdfError
        /\ statsExpanded' = s.statsExpanded
        /\ showResumeViewer' = s.showResumeViewer
        /\ navPdfError' = s.navPdfError
        /\ activeCategory' = s.activeCategory
        /\ isModalOpen' = s.isModalOpen
        /\ page' = page
        /\ mounted' = tree
        /\ listeners' = SelectSeq(listeners, Stays) \o fresh
        /\ bodyOverflow' =
              IF \E c \in created : EffectOf(c).locks THEN "hidden"
              ELSE IF \E c \in destroyed : EffectOf(c).restores THEN "unset"
              ELSE bodyOverflow
        /\ windowOpened' = url
        /\ lastEvent' = ev
        /\ pre' = Before(ev)

-----------------------------------------------------------------------------
(* The state after construction *)

\* Home starting in German.
HomeInitialStateGerman == [lang |-> "de", activeModal |-> NULL]

\* The useState initial values of Home.
HomeInitialState == [lang |-> "en", activeModal |-> NULL]

\* The components a page renders at its root: Home on the site's page;
\* GallerySection is exported for a page of its own, which passes it the
\* language (Home does not render it).
Pages == {"Home", "GallerySection"}

Init ==
    /\ page = "Home"
    /\ lang = HomeInitialState.lang
    /\ activeModal = HomeInitialState.activeModal
    /\ mounted = {}
    /\ selectedItem = NoItem
    /\ playingVideo = NoVideo
    /\ imageErrors = {}
    /\ viewingCertificate = NoCert
    /\ showResume = FALSE
    /\ pdfError = FALSE
    /\ statsExpanded = TRUE
    /\ showResumeViewer = FALSE
    /\ navPdfError = FALSE
    /\ activeCategory = "All"
    /\ isModalOpen = FALSE
    /\ listeners = <<>>
    /\ bodyOverflow = ""
    /\ windowOpened = ""
    /\ lastEvent = Ev("load", "", 0)
    /\ pre = [lang |-> HomeInitialState.lang, activeModal |-> HomeInitialState.activeModal,
              inner |-> FALSE, repeat |-> FALSE]

-----------------------------------------------------------------------------
(* Events *)

\* Loading the page that renders p constructs everything anew.
Load(p) ==
    /\ page' = p
    /\ lang' = HomeInitialState.lang
    /\ activeModal' = HomeInitialState.activeModal
    /\ mounted' = {}
    /\ selectedItem' = NoItem
    /\ playingVideo' = NoVideo
    /\ imageErrors' = {}
    /\ viewingCertificate' = NoCert
    /\ showResume' = FALSE
    /\ pdfError' = FALSE
    /\ statsExpanded' = TRUE
    /\ showResumeViewer' = FALSE
    /\ navPdfError' = FALSE
    /\ activeCategory' = "All"
    /\ isModalOpen' = FALSE
    /\ listeners' = <<>>
    /\ bodyOverflow' = ""
    /\ windowOpened' = ""
    /\ lastEvent' = Ev("load", "", 0)
    /\ pre' = Before(Ev("load", "", 0))

\* Reloading the page.
Reload == Load(page)

\* Leaving for the other page.
Visit == \E p \in Pages \ {page} : Load(p)

\* A click on an entry of the left navigation panel; the event's number is the
\* entry's position, the right panel's entries counted after the left panel's.
NavigateLeft ==
    \E i \in DOMAIN LeftSections :
        Commit(openSection(Cur, LeftSections[i]), Ev("navigate", LeftSections[i], i), "")

\* A click on an entry of the right navigation panel.
NavigateRight ==
    \E i \in DOMAIN RightSections :
        Commit(openSection(Cur, RightSections[i]),
               Ev("navigate", RightSections[i], Len(LeftSections) + i), "")

\* The profile's "View Experience" button.
OpenExperience ==
    Commit(openSection(Cur, "experience"), Ev("openExperience", "experience", 0), "")

\* The profile's language button.
ToggleLang ==
    Commit(toggleLanguage(Cur), Ev("toggleLang", "", 0), "")

\* The "back" button in the header of the mounted panel.
BackButton ==
    /\ mounted \cap Panels # {}
    /\ Commit(onClose(Cur), Ev("back", "", 0), "")

\* A keydown of Escape: every registered listener runs, the state updates they
\* make are batched into one render.
Escape ==
    LET calls == UNION {HandleEsc(listeners[i]) : i \in DOMAIN listeners}
        u1 == IF "onClose" \in calls THEN onClose(Cur) ELSE Cur
        u2 == [u1 EXCEPT
                 !.selectedItem = IF "setSelectedItem(null)" \in calls THEN NoItem ELSE @,
                 !.playingVideo = IF "setPlayingVideo(null)" \in calls THEN NoVideo ELSE @,
                 !.showResume = IF "setShowResume(false)" \in calls THEN FALSE ELSE @,
                 !.viewingCertificate =
                     IF "setViewingCertificate(null)" \in calls THEN NoCert ELSE @]
    IN  Commit(u2, Ev("escape", "", 0), "")

\* The card's onClick opening the lightbox for every item.
GallerySelectAlwaysLightbox ==
    /\ "gallery" \in mounted
    /\ \E i \in DOMAIN GalleryItems :
         Commit([Cur EXCEPT !.selectedItem = i], Ev("gallerySelect", "", i),
                GalleryItems[i].link)

\* A click on a card of the gallery grid.
GallerySelect ==
    /\ "gallery" \in mounted
    /\ \E i \in DOMAIN GalleryItems :
         IF GalleryItems[i].link # ""
         THEN Commit(Cur, Ev("gallerySelect", "", i), GalleryItems[i].link)
         ELSE Commit([Cur EXCEPT !.selectedItem = i], Ev("gallerySelect", "", i), "")

\* The lightbox rendered for images only.
LightboxRenderedImagesOnly ==
    /\ "gallery" \in mounted
    /\ selectedItem # NoItem
    /\ GalleryItems[selectedItem].type = "image"

\* The lightbox of the gallery panel: {selectedItem && !selectedItem.link && ...}
LightboxRendered ==
    /\ "gallery" \in mounted
    /\ selectedItem # NoItem
    /\ ~HasLink(selectedItem)

\* The lightbox's close button; the lightbox is rendered when
\* selectedItem && !selectedItem.link.
LightboxClose ==
    /\ "gallery" \in mounted
    /\ selectedItem # NoItem /\ ~HasLink(selectedItem)
    /\ Commit([Cur EXCEPT !.selectedItem = NoItem], Ev("lightboxClose", "", 0), "")

\* The in-page player of the videos panel: {playingVideo && ...}
PlayerRendered == "videos" \in mounted /\ TruthyNumber(playingVideo)

\* handleVideoClick that opens the source and plays in the panel whatever the
\* source is.
VideoClickAlwaysPlays ==
    /\ "videos" \in mounted
    /\ \E i \in DOMAIN Videos :
         Commit([Cur EXCEPT !.playingVideo = Videos[i].id],
                Ev("videoClick", "", Videos[i].id),
                IF Videos[i].youtube THEN Videos[i].src ELSE "")

\* handleVideoClick that also calls onClose.
VideoClickClosesOverlay ==
    /\ "videos" \in mounted
    /\ \E i \in DOMAIN Videos :
         Commit(closeOverlay([Cur EXCEPT !.playingVideo = Videos[i].id]),
                Ev("videoClick", "", Videos[i].id), "")

\* handleVideoClick
VideoClick ==
    /\ "videos" \in mounted
    /\ \E i \in DOMAIN Videos :
         IF Videos[i].youtube
         THEN Commit(Cur, Ev("videoClick", "", Videos[i].id), Videos[i].src)
         ELSE Commit([Cur EXCEPT !.playingVideo = Videos[i].id],
                     Ev("videoClick", "", Videos[i].id), "")

\* The player's close button; the player is rendered when playingVideo is truthy.
VideoClose ==
    /\ "videos" \in mounted
    /\ TruthyNumber(playingVideo)
    /\ Commit([Cur EXCEPT !.playingVideo = NoVideo], Ev("videoClose", "", 0), "")

\* The thumbnail image of video v: {!imageErrors[video.id] && <img .../>}
ThumbnailRendered(v) == "videos" \in mounted /\ v \notin imageErrors

\* handleImageError that drops the flags set before: setImageErrors({[videoId]: true})
ImageErrorReplacesFlags ==
    /\ "videos" \in mounted
    /\ \E v \in VideoIds \ imageErrors :
         Commit([Cur EXCEPT !.imageErrors = {v}], Ev("imageError", "", v), "")

\* handleImageError, the onError of a thumbnail, which is rendered while the
\* video's flag is not set.
ImageError ==
    /\ "videos" \in mounted
    /\ \E v \in VideoIds \ imageErrors :
         Commit([Cur EXCEPT !.imageErrors = @ \cup {v}], Ev("imageError", "", v), "")

\* getCertificateContent of CertificateViewerModal: the document the viewer
\* shows for certificateId, NULL for its final return null.
getCertificateContent(certificateId) ==
    IF certificateId = "nasa-certificate"
    THEN "/assets/documents/NASA-Certificate.pdf"
    ELSE IF certificateId = "eu-certificate"
    THEN "/assets/documents/Certificate Woord en Daad.pdf"
    ELSE NULL

\* The "View Certificate" button rendered for every achievement.
ViewCertificateAlwaysOffered ==
    /\ "certificates" \in mounted
    /\ \E i \in DOMAIN Achievements :
         Commit([Cur EXCEPT !.viewingCertificate =
                     [name |-> <<Achievements[i].id, lang>>,
                      id |-> Achievements[i].certificateId]],
                Ev("viewCertificate", Achievements[i].id, 0), "")

\* The "View Certificate" button, rendered for achievements with hasCertificate.
ViewCertificate ==
    /\ "certificates" \in mounted
    /\ \E i \in DOMAIN Achievements :
         /\ Achievements[i].hasCertificate
         /\ Commit([Cur EXCEPT !.viewingCertificate =
                        [name |-> <<Achievements[i].id, lang>>,
                         id |-> Achievements[i].certificateId]],
                   Ev("viewCertificate", Achievements[i].id, 0), "")

\* The certificate viewer's close button.
ViewerClose ==
    /\ "certviewer" \in mounted
    /\ Commit([Cur EXCEPT !.viewingCertificate = NoCert], Ev("viewerClose", "", 0), "")

\* The contact panel's resume viewer: {showResume && ...}
ResumeViewerRendered == "contact" \in mounted /\ showResume

\* The failure fallback rendered beside the viewer instead of inside it.
FallbackDisplayedOutsideViewer == "contact" \in mounted /\ pdfError

\* The failure fallback: {pdfError && ...} inside the viewer's block.
FallbackDisplayed == ResumeViewerRendered /\ pdfError

\* The contact panel's "View Resume" button.
ViewResume ==
    /\ "contact" \in mounted
    /\ Commit([Cur EXCEPT !.showResume = TRUE], Ev("viewResume", "", 0), "")

\* The resume viewer's close button clearing the error flag as well.
ResumeCloseResetsError ==
    /\ "contact" \in mounted
    /\ showResume
    /\ Commit([Cur EXCEPT !.showResume = FALSE, !.pdfError = FALSE],
              Ev("resumeClose", "", 0), "")

\* The resume viewer's close button.
ResumeClose ==
    /\ "contact" \in mounted
    /\ showResume
    /\ Commit([Cur EXCEPT !.showResume = FALSE], Ev("resumeClose", "", 0), "")

\* onLoad of the resume iframe.
PdfLoad ==
    /\ "contact" \in mounted
    /\ showResume
    /\ Commit([Cur EXCEPT !.pdfError = FALSE], Ev("pdfLoad", "", 0), "")

\* onError of the resume iframe.
PdfError ==
    /\ "contact" \in mounted
    /\ showResume
    /\ Commit([Cur EXCEPT !.pdfError = TRUE], Ev("pdfError", "", 0), "")

\* The stats rows of the left panel: {statsExpanded && ...}
StatsRowsRendered == statsExpanded

\* The stats header only collapsing the block.
ToggleStatsOnlyCollapses ==
    Commit([Cur EXCEPT !.statsExpanded = FALSE], Ev("toggleStats", "", 0), "")

\* The header of the left panel's Quick Stats block:
\* setStatsExpanded(!statsExpanded)
ToggleStats ==
    Commit([Cur EXCEPT !.statsExpanded = ~statsExpanded], Ev("toggleStats", "", 0), "")

\* The right panel's "View Resume" button opening the contact panel as well.
NavViewResumeOpensContact ==
    Commit(openSection([Cur EXCEPT !.showResumeViewer = TRUE], "contact"),
           Ev("navViewResume", "", 0), "")

\* The right panel's "View Resume" button.
NavViewResume ==
    Commit([Cur EXCEPT !.showResumeViewer = TRUE], Ev("navViewResume", "", 0), "")

\* The close button of the right panel's resume viewer.
NavResumeClose ==
    /\ showResumeViewer
    /\ Commit([Cur EXCEPT !.showResumeViewer = FALSE], Ev("navResumeClose", "", 0), "")

\* onLoad of the iframe of the right panel's resume viewer.
NavPdfLoad ==
    /\ showResumeViewer
    /\ Commit([Cur EXCEPT !.navPdfError = FALSE], Ev("navPdfLoad", "", 0), "")

\* onError of the iframe of the right panel's resume viewer.
NavPdfError ==
    /\ showResumeViewer
    /\ Commit([Cur EXCEPT !.navPdfError = TRUE], Ev("navPdfError", "", 0), "")

\* The right panel's LinkedIn and GitHub buttons.
NavQuickLink ==
    \E url \in {"https://www.linkedin.com/in/douglas-kings/", "https://github.com/DouglasKings"} :
        Commit(Cur, Ev("navQuickLink", url, 0), url)

\* The profile's "See My Work" button: Home passes no onNavigateToGallery, and
\* the scroll it schedules changes no state.
SeeMyWork ==
    Commit(Cur, Ev("seeMyWork", "", 0), "")

Next ==
    \/ Reload
    \/ NavigateLeft
    \/ NavigateRight
    \/ OpenExperience
    \/ ToggleLang
    \/ BackButton
    \/ Escape
    \/ GallerySelect
    \/ LightboxClose
    \/ VideoClick
    \/ VideoClose
    \/ ImageError
    \/ ViewCertificate
    \/ ViewerClose
    \/ ViewResume
    \/ ResumeClose
    \/ PdfLoad
    \/ PdfError
    \/ ToggleStats
    \/ NavViewResume
    \/ NavResumeClose
    \/ NavPdfLoad
    \/ NavPdfError
    \/ NavQuickLink
    \/ SeeMyWork

Spec == Init /\ [][Next]_vars

\* A call of an onClose callback of Home whatever the state, also one kept from
\* an earlier render.
CloseOverlayCall ==
    Commit(closeOverlay(Cur), Ev("closeOverlay", "", 0), "")

NextShell == Next \/ CloseOverlayCall

SpecShell == Init /\ [][NextShell]_vars

\* Identifiers without a render branch in Home.
UnregisteredIds == {"", "Education", "projects"}

\* A call of Home's onNavigate callback with any string.
OpenSectionCall ==
    \E id \in Panels \cup UnregisteredIds :
        Commit(openSection(Cur, id), Ev("openSection", id, 0), "")

NextApi == NextShell \/ OpenSectionCall

SpecApi == Init /\ [][NextApi]_vars

-----------------------------------------------------------------------------
(* GallerySection, the gallery preview panel. Home does not render it; it is *)
(* specified on a page of its own, which passes it the language and can      *)
(* toggle it.                                                                *)

\* projects of GallerySection: id and category.
Projects ==
    << [id |-> 1, category |-> "Web Development"],
       [id |-> 2, category |-> "Web Development"],
       [id |-> 3, category |-> "Web Development"],
       [id |-> 4, category |-> "Design"],
       [id |-> 5, category |-> "3D Animation"],
       [id |-> 6, category |-> "Web Development"] >>

\* uiText[language].all
UiTextAll(language) == IF language = "en" THEN "All" ELSE "Alle"

\* categories = [text.all, "Web Development", "Design", "3D Animation"]
Categories(language) == <<UiTextAll(language), "Web Development", "Design", "3D Animation">>

\* filteredProjects
filteredProjects(category, language) ==
    LET Matches(project) == project.category = category
    IN  IF category = UiTextAll(language) \/ category = "All"
        THEN Projects
        ELSE SelectSeq(Projects, Matches)

\* A click on a category filter button: setActiveCategory(cat)
CategoryClick ==
    \E i \in DOMAIN Categories(lang) :
        Commit([Cur EXCEPT !.activeCategory = Categories(lang)[i]],
               Ev("categoryClick", Categories(lang)[i], i), "")

\* The "View Awards & Events Gallery" button: setIsModalOpen(true)
OpenFullGallery ==
    Commit([Cur EXCEPT !.isModalOpen = TRUE], Ev("openFullGallery", "", 0), "")

NextGallery ==
    \/ Reload
    \/ ToggleLang
    \/ CategoryClick
    \/ OpenFullGallery
    \/ BackButton
    \/ Escape
    \/ GallerySelect
    \/ LightboxClose

\* The site: the events of the page in view, and leaving for the other page.
NextSite ==
    \/ page = "Home" /\ Next
    \/ page = "GallerySection" /\ NextGallery
    \/ Visit

SpecSite == Init /\ [][NextSite]_vars

-----------------------------------------------------------------------------
(* SkillsSection, rendered by Home with the language *)

\* A skill whose name is a string.
Plain(s) == [typeof |-> "string", name |-> s]

\* A skill whose name is an object with an entry per language.
Translated(en, de) == [typeof |-> "object", name |-> [en |-> en, de |-> de]]

\* skillsData, the categories one after the other.
skillsData ==
    << Plain("Java"),
       Plain("JavaScript"),
       Plain("Python"),
       Plain("HTML5"),
       Plain("CSS3"),
       Plain("C++"),
       Plain("C"),
       Plain("React.js"),
       Plain("Tailwind CSS"),
       Plain("Bootstrap"),
       Plain("Vue.js"),
       Translated("Responsive Design", "Responsives Design"),
       Plain("Spring Boot Microservices"),
       Plain("RESTful APIs"),
       Translated("USSD Integration", "USSD-Integration"),
       Plain("Node.js"),
       Plain("Django"),
       Plain("MySQL"),
       Translated("Schema Design", "Schema-Design"),
       Plain("PostgreSQL"),
       Translated("Query Optimization", "Query-Optimierung"),
       Plain("MongoDB"),
       Plain("Git"),
       Plain("GitHub"),
       Plain("Agile/Scrum"),
       Plain("Maven"),
       Plain("Adobe Creative Suite"),
       Plain("Adobe Photoshop"),
       Plain("Adobe Illustrator"),
       Plain("Adobe Premiere Pro"),
       Plain("Moho 12") >>

\* getSkillName that always takes the English entry.
getSkillNameAlwaysEnglish(skill, language) ==
    IF skill.typeof = "string" THEN skill.name ELSE skill.name["en"]

\* getSkillName: typeof skill.name === "string" ? skill.name : skill.name[language]
getSkillName(skill, language) ==
    IF skill.typeof = "string" THEN skill.name ELSE skill.name[language]

\* The skill names the section shows in the current state.
SkillNamesShown == [i \in DOMAIN skillsData |-> getSkillName(skillsData[i], lang)]

-----------------------------------------------------------------------------
(* The program's state without the record of the last event *)

progVars == <<lang, activeModal, mounted, selectedItem, playingVideo, imageErrors,
              viewingCertificate, showResume, pdfError, statsExpanded, showResumeViewer,
              navPdfError, activeCategory, isModalOpen, page, listeners, bodyOverflow>>

MountedPanels == mounted \cap Panels

-----------------------------------------------------------------------------
(* Properties *)

\* C1: in every reachable state at most one of the eight overlay panels is
\* mounted, and it is the one whose identifier equals activeModal; after a
\* navigation to b (also when another panel a was open) only b's panel is
\* mounted.
C1_AtMostOneOverlay ==
    /\ Cardinality(MountedPanels) <= 1
    /\ \A p \in Panels : p \in mounted <=> activeModal = p
    /\ lastEvent.type \in {"navigate", "openExperience"} => MountedPanels = {lastEvent.id}

C1_Witness ==
    /\ lastEvent.type = "navigate"
    /\ pre.activeModal \in Panels
    /\ pre.activeModal # lastEvent.id
    /\ MountedPanels = {lastEvent.id}

\* C2: a language toggle always yields the other language, and a toggle that
\* follows a toggle yields the language the first one started from, whatever
\* overlay is active.
C2_ToggleInvolution ==
    [][lastEvent'.type = "toggleLang" =>
          /\ lang' \in Languages
          /\ lang' # lang
          /\ (lastEvent.type = "toggleLang" => lang' = pre.lang)]_vars

C2_Witness ==
    /\ lastEvent.type = "toggleLang"
    /\ pre.repeat
    /\ lang = "de"
    /\ activeModal \in Panels

\* C3: a call of closeOverlay gives activeModal = null from every state, also
\* from null, and a second call changes nothing in the program's state.
C3_CloseIdempotent ==
    [][lastEvent'.type = "closeOverlay" =>
          /\ activeModal' = NULL
          /\ MountedPanels' = {}
          /\ (lastEvent.type = "closeOverlay" => UNCHANGED progVars)]_vars

C3_Witness ==
    /\ lastEvent.type = "closeOverlay"
    /\ pre.repeat
    /\ pre.activeModal = NULL
    /\ activeModal = NULL

\* C4: with a panel mounted and none of the inner viewers open, one Escape
\* press gives the shell state of closeOverlay: activeModal = null, the
\* language unchanged, no panel mounted.
C4_EscapeIsClose ==
    [][(lastEvent'.type = "escape" /\ activeModal \in Panels /\ ~pre'.inner) =>
          /\ activeModal' = closeOverlay(Cur).activeModal
          /\ activeModal' = NULL
          /\ lang' = lang
          /\ mounted' = {}
          /\ listeners' = <<>>]_vars

C4_Witness ==
    /\ lastEvent.type = "escape"
    /\ pre.activeModal = "references"
    /\ ~pre.inner
    /\ activeModal = NULL

\* C5: an Escape press while an inner viewer is open (gallery, videos,
\* certificates, contact) closes the viewer only and leaves activeModal as it
\* was; the Escape press that follows it gives activeModal = null.
C5_InnerFirst ==
    lastEvent.type = "escape" /\ pre.inner =>
        /\ activeModal = pre.activeModal
        /\ activeModal \in {"gallery", "videos", "certificates", "contact"}
        /\ activeModal \in mounted
        /\ ~InnerOpen(activeModal, Cur)
        /\ "certviewer" \notin mounted

C5_ThenOuter ==
    (lastEvent.type = "escape" /\ pre.inner /\ lastEvent'.type = "escape") =>
        activeModal' = NULL

C5_TwoLevelCancel == [](C5_InnerFirst) /\ [][C5_ThenOuter]_vars

C5_Witness ==
    /\ lastEvent.type = "escape"
    /\ pre.inner
    /\ pre.activeModal = "gallery"
    /\ activeModal = "gallery"
    /\ selectedItem = NoItem

\* C6: selecting a gallery item that has a link asks window.open for that link
\* and changes neither selectedItem nor activeModal nor the language;
\* selecting an item without a link sets selectedItem to it and asks for no
\* navigation.
C6_GallerySelect ==
    [][lastEvent'.type = "gallerySelect" =>
          IF HasLink(lastEvent'.n)
          THEN /\ windowOpened' = GalleryItems[lastEvent'.n].link
               /\ selectedItem' = selectedItem
               /\ activeModal' = activeModal
               /\ lang' = lang
               /\ mounted' = mounted
          ELSE /\ selectedItem' = lastEvent'.n
               /\ windowOpened' = ""
               /\ activeModal' = activeModal
               /\ lang' = lang]_vars

C6_Witness ==
    /\ lastEvent.type = "gallerySelect"
    /\ HasLink(lastEvent.n)
    /\ windowOpened = GalleryItems[lastEvent.n].link
    /\ selectedItem = NoItem
    /\ activeModal = "gallery"

\* C7: the language toggle leaves activeModal (and the mounted panel)
\* unchanged, and every other event but a reload leaves the language
\* unchanged.
C7_FieldsIndependent ==
    [][/\ lastEvent'.type = "toggleLang" => (activeModal' = activeModal /\ mounted' = mounted)
       /\ lastEvent'.type \notin {"toggleLang", "load"} => lang' = lang]_vars

C7_Witness ==
    /\ lastEvent.type = "escape"
    /\ pre.lang = "de"
    /\ pre.activeModal = "experience"
    /\ lang = "de"
    /\ activeModal = NULL

\* C8: whenever one of the eight panels is mounted, document.body.style.overflow
\* is "hidden".
C8_ScrollLocked ==
    \A p \in Panels : p \in mounted => bodyOverflow = "hidden"

\* C9: whenever activeModal is null, nothing is mounted and
\* document.body.style.overflow is not "hidden".
C9_ScrollRestored ==
    activeModal = NULL => (mounted = {} /\ bodyOverflow # "hidden")

C9_Witness ==
    /\ activeModal = NULL
    /\ lastEvent.type = "back"
    /\ pre.activeModal = "certificates"
    /\ pre.inner
    /\ bodyOverflow = "unset"

\* C10: the state after construction and after every reload is lang = en,
\* activeModal = null, and lang is en or de in every reachable state.
C10_InitialState ==
    /\ lang \in Languages
    /\ lastEvent.type = "load" => (lang = "en" /\ activeModal = NULL)

C10_Witness ==
    /\ lastEvent.type = "load"
    /\ pre.lang = "de"
    /\ pre.activeModal \in Panels
    /\ lang = "en"
    /\ activeModal = NULL

-----------------------------------------------------------------------------

\* C11: after openSection(id) with an id that is none of the eight registered
\* identifiers, whatever the state it is called in, the call has completed
\* (activeModal holds the id), no panel is mounted and no component at all is
\* in the tree, no Escape listener is registered and no window was opened.
C11_UnregisteredMountsNothing ==
    lastEvent.type = "openSection" /\ lastEvent.id \notin Panels
        => /\ activeModal = lastEvent.id
           /\ MountedPanels = {}
           /\ mounted = {}
           /\ listeners = <<>>
           /\ windowOpened = ""

\* openSection("Education") was called while the gallery panel showed its
\* lightbox.
C11_Witness ==
    /\ lastEvent.type = "openSection"
    /\ lastEvent.id = "Education"
    /\ pre.activeModal = "gallery"
    /\ pre.inner
    /\ mounted = {}

-----------------------------------------------------------------------------

\* C12: in every step in which an overlay panel becomes mounted (it was not in
\* the tree before the step and is after it), the panel's local state after
\* the step is its default: the gallery's selectedItem is none, the videos
\* panel's playingVideo is none and it has no image-error flag, the
\* certificates panel's viewingCertificate is none, the contact panel's
\* showResume and pdfError are false.
C12_FreshOnMount ==
    [][\A p \in Panels :
          p \in mounted' /\ p \notin mounted
              => /\ p = "gallery" => selectedItem' = NoItem
                 /\ p = "videos" => playingVideo' = NoVideo /\ imageErrors' = {}
                 /\ p = "certificates" => viewingCertificate' = NoCert
                 /\ p = "contact" => showResume' = FALSE /\ pdfError' = FALSE]_vars

\* The videos panel has just replaced a contact panel whose resume viewer was
\* open.
C12_Witness ==
    /\ lastEvent.type = "navigate"
    /\ lastEvent.id = "videos"
    /\ pre.activeModal = "contact"
    /\ pre.inner
    /\ "videos" \in mounted
    /\ playingVideo = NoVideo
    /\ ~showResume

-----------------------------------------------------------------------------

\* C13: after the activation of a navigation entry activeModal is that entry's
\* fixed identifier, in either language: the left panel's entries give
\* education, experience, skills, certificates, the right panel's give videos,
\* gallery, references, contact (the event's number counts the left panel's
\* entries first); after the profile's "View Experience" button it is
\* experience.
C13_FixedIdentifiers ==
    LET expected == <<"education", "experience", "skills", "certificates",
                      "videos", "gallery", "references", "contact">>
    IN  /\ lastEvent.type = "navigate"
            => /\ lastEvent.n \in DOMAIN expected
               /\ lastEvent.id = expected[lastEvent.n]
               /\ activeModal = expected[lastEvent.n]
        /\ lastEvent.type = "openExperience" => activeModal = "experience"

\* The fourth entry of the left panel was activated in German while the
\* videos panel was open.
C13_Witness ==
    /\ lastEvent.type = "navigate"
    /\ lastEvent.n = Len(LeftSections)
    /\ lang = "de"
    /\ pre.lang = "de"
    /\ pre.activeModal = "videos"
    /\ activeModal = "certificates"

-----------------------------------------------------------------------------

\* C14: a step of an action local to an overlay or a panel (gallery select,
\* lightbox close, video click or close, thumbnail error, certificate viewer
\* open or close, resume viewer open or close, iframe load or error, stats
\* toggle, the right panel's resume viewer and quick links, "See My Work", the
\* gallery preview's category filter and its "open gallery" button) changes
\* neither lang nor activeModal; and every step that changes lang or
\* activeModal is one of the callbacks handed down: the language toggle (lang
\* flips, activeModal unchanged), a navigation (activeModal becomes the
\* entry's identifier, lang unchanged), a close by the back button or Escape
\* (activeModal becomes null, lang unchanged), or a page load.
C14_SingleWriter ==
    [][LET local == {"gallerySelect", "lightboxClose", "videoClick", "videoClose",
                     "imageError", "viewCertificate", "viewerClose", "viewResume",
                     "resumeClose", "pdfLoad", "pdfError", "toggleStats",
                     "navViewResume", "navResumeClose", "navPdfLoad", "navPdfError",
                     "navQuickLink", "seeMyWork", "categoryClick", "openFullGallery"}
           t == lastEvent'.type
       IN  /\ t \in local => lang' = lang /\ activeModal' = activeModal
           /\ lang' # lang \/ activeModal' # activeModal
                 => \/ t = "toggleLang" /\ lang' # lang /\ activeModal' = activeModal
                    \/ /\ t \in {"navigate", "openExperience"}
                       /\ activeModal' = lastEvent'.id
                       /\ lastEvent'.id \in Panels
                       /\ lang' = lang
                    \/ t \in {"back", "escape"} /\ activeModal' = NULL /\ lang' = lang
                    \/ t = "load"]_vars

\* The gallery preview's "Design" filter was clicked in German.
C14_Witness ==
    /\ lastEvent.type = "categoryClick"
    /\ lastEvent.id = "Design"
    /\ activeCategory = "Design"
    /\ pre.lang = "de"
    /\ lang = "de"
    /\ activeModal = NULL

-----------------------------------------------------------------------------

\* C15: in every reachable state of the gallery preview the visible project
\* list is determined by the active category alone: when the active category
\* is a category tag it is exactly the projects of that category in their
\* original order, and when it is the "all" sentinel (the default "All", or
\* the label of the first filter button, "All" in English and "Alle" in
\* German) it is the full list, also after a language toggle.
C15_FilterIsPure ==
    LET tags == {Projects[i].category : i \in DOMAIN Projects}
        sentinels == {UiTextAll(l) : l \in Languages} \cup {"All"}
        HasActiveCategory(project) == project.category = activeCategory
        visible == filteredProjects(activeCategory, lang)
    IN  /\ activeCategory \in tags => visible = SelectSeq(Projects, HasActiveCategory)
        /\ activeCategory \in sentinels => visible = Projects

-----------------------------------------------------------------------------

\* C16: in every state the name shown for a skill whose name is a
\* per-language record is the record's entry for the active language, and the
\* name shown for a skill whose name is a plain string is that string; so a
\* step that changes the language leaves the names of plain strings as they
\* were and changes only names of records.
C16_SkillNameResolved ==
    /\ [](\A i \in DOMAIN skillsData :
             SkillNamesShown[i] =
                 IF skillsData[i].typeof = "object"
                 THEN (IF lang = "en" THEN skillsData[i].name.en ELSE skillsData[i].name.de)
                 ELSE skillsData[i].name)
    /\ [][lang' # lang =>
             \A i \in DOMAIN skillsData :
                 SkillNamesShown'[i] # SkillNamesShown[i]
                     => skillsData[i].typeof = "object"]_vars

\* After a toggle to German a record shows its German entry and a plain
\* string is unchanged.
C16_Witness ==
    /\ lastEvent.type = "toggleLang"
    /\ lang = "de"
    /\ \E i \in DOMAIN skillsData :
          /\ skillsData[i].typeof = "object"
          /\ SkillNamesShown[i] = "Responsives Design"
    /\ \E i \in DOMAIN skillsData :
          /\ skillsData[i].typeof = "string"
          /\ SkillNamesShown[i] = "Java"

-----------------------------------------------------------------------------

\* C17 (as stated): a step of an action on the left or the right navigation
\* panel changes no state other than statsExpanded and, by a navigation,
\* activeModal with what the change of panel entails; in particular the
\* panels hold no other state of their own, so the right panel's
\* showResumeViewer and pdfError never change.
C17_OnlyStatsState ==
    [][LET t == lastEvent'.type
       IN  t \in {"navigate", "toggleStats", "navViewResume", "navResumeClose",
                  "navPdfLoad", "navPdfError", "navQuickLink"}
               => /\ UNCHANGED <<lang, activeCategory, isModalOpen, page>>
                  /\ UNCHANGED <<showResumeViewer, navPdfError>>
                  /\ t # "navigate" => activeModal' = activeModal
                  /\ t # "toggleStats" => statsExpanded' = statsExpanded
                  /\ activeModal' = activeModal
                        => UNCHANGED <<selectedItem, playingVideo, imageErrors,
                                       viewingCertificate, showResume, pdfError,
                                       mounted, listeners, bodyOverflow>>]_vars

\* C17 (amended): the navigation panels' own state is the left panel's
\* statsExpanded and the right panel's showResumeViewer and pdfError. A step
\* of an action on a navigation panel changes statsExpanded only by the stats
\* header, showResumeViewer only by the right panel's "View Resume" button and
\* its viewer's close button, the right panel's pdfError only by its iframe's
\* load and error callbacks, activeModal only by a navigation, and nothing
\* else except what the change of panel entails.
C17_NavPanelState ==
    [][LET t == lastEvent'.type
       IN  t \in {"navigate", "toggleStats", "navViewResume", "navResumeClose",
                  "navPdfLoad", "navPdfError", "navQuickLink"}
               => /\ UNCHANGED <<lang, activeCategory, isModalOpen, page>>
                  /\ t \notin {"navViewResume", "navResumeClose"}
                        => showResumeViewer' = showResumeViewer
                  /\ t \notin {"navPdfLoad", "navPdfError"} => navPdfError' = navPdfError
                  /\ t # "navigate" => activeModal' = activeModal
                  /\ t # "toggleStats" => statsExpanded' = statsExpanded
                  /\ activeModal' = activeModal
                        => UNCHANGED <<selectedItem, playingVideo, imageErrors,
                                       viewingCertificate, showResume, pdfError,
                                       mounted, listeners, bodyOverflow>>]_vars

\* The right panel's "View Resume" button was clicked while the gallery panel
\* showed its lightbox: the panel's viewer is open, the lightbox still is.
C17_Witness ==
    /\ lastEvent.type = "navViewResume"
    /\ showResumeViewer
    /\ ~pre.repeat
    /\ activeModal = "gallery"
    /\ selectedItem # NoItem

-----------------------------------------------------------------------------

\* C18: after a page load statsExpanded is true; the stats rows are rendered
\* exactly when statsExpanded is true; every activation of the stats header
\* negates statsExpanded; and a language toggle, a navigation, the "View
\* Experience" button, the back button and Escape leave it as it was.
C18_StatsToggle ==
    /\ [](lastEvent.type = "load" => statsExpanded)
    /\ [](StatsRowsRendered <=> statsExpanded = TRUE)
    /\ [][lastEvent'.type = "toggleStats" => statsExpanded' = ~statsExpanded]_vars
    /\ [][lastEvent'.type \in {"toggleLang", "navigate", "openExperience", "back", "escape"}
             => statsExpanded' = statsExpanded]_vars

\* The second of two successive activations of the stats header, in German
\* with the skills panel open: the block is expanded again.
C18_Witness ==
    /\ lastEvent.type = "toggleStats"
    /\ pre.repeat
    /\ statsExpanded
    /\ StatsRowsRendered
    /\ lang = "de"
    /\ activeModal = "skills"

-----------------------------------------------------------------------------

-----------------------------------------------------------------------------

\* C20: in the contact panel the resume viewer is rendered exactly when
\* showResume is true, and the failure fallback exactly when showResume and
\* pdfError are both true; "View Resume" makes showResume true and the
\* viewer's close button makes it false; pdfError turns true only in a step of
\* the iframe's error event, which makes it true, and the load event makes it
\* false; neither of the two events changes showResume or activeModal.
C20_ResumeViewer ==
    /\ [](ResumeViewerRendered <=> showResume = TRUE)
    /\ [](FallbackDisplayed <=> showResume = TRUE /\ pdfError = TRUE)
    /\ [][lastEvent'.type = "viewResume" => showResume' /\ ResumeViewerRendered']_vars
    /\ [][lastEvent'.type = "resumeClose" => ~showResume' /\ ~ResumeViewerRendered']_vars
    /\ [][~pdfError /\ pdfError' => lastEvent'.type = "pdfError"]_vars
    /\ [][lastEvent'.type = "pdfError" => pdfError' /\ FallbackDisplayed']_vars
    /\ [][lastEvent'.type = "pdfLoad" => ~pdfError' /\ ~FallbackDisplayed']_vars
    /\ [][lastEvent'.type \in {"pdfError", "pdfLoad"}
             => showResume' = showResume /\ activeModal' = activeModal]_vars

\* The viewer was closed after the iframe's error event: pdfError is true and
\* the fallback is not displayed.
C20_Witness ==
    /\ lastEvent.type = "resumeClose"
    /\ activeModal = "contact"
    /\ pdfError
    /\ ~showResume
    /\ ~ResumeViewerRendered
    /\ ~FallbackDisplayed

-----------------------------------------------------------------------------

\* C21: in the videos panel an image-error event of video v adds v's flag and
\* changes no other flag, nor playingVideo, lang or activeModal; the thumbnail
\* of v is rendered exactly when the panel is mounted and v's flag is not set;
\* while the panel stays mounted no flag is cleared, so a thumbnail that
\* failed is not rendered, and not requested, again in that mount.
C21_ImageErrorContained ==
    /\ [](\A v \in VideoIds :
             ThumbnailRendered(v) <=> "videos" \in mounted /\ v \notin imageErrors)
    /\ [][lastEvent'.type = "imageError" =>
             /\ lastEvent'.n \in VideoIds \ imageErrors
             /\ imageErrors' = imageErrors \cup {lastEvent'.n}
             /\ \A v \in VideoIds : v = lastEvent'.n => ~ThumbnailRendered(v)'
             /\ UNCHANGED <<playingVideo, lang, activeModal, mounted>>]_vars
    /\ [][\A v \in imageErrors :
             "videos" \in mounted' /\ lastEvent'.type # "load" => v \in imageErrors']_vars
    /\ [][\A v \in VideoIds :
             ~ThumbnailRendered(v) /\ ThumbnailRendered(v)' => "videos" \notin mounted]_vars

\* The second thumbnail failed after the first, while the local video plays:
\* both flags are set.
C21_Witness ==
    /\ lastEvent.type = "imageError"
    /\ pre.repeat
    /\ imageErrors = VideoIds
    /\ playingVideo # NoVideo
    /\ activeModal = "videos"

-----------------------------------------------------------------------------

\* C22: an Escape pressed while a panel is open and no inner viewer is open
\* makes activeModal null; an Escape pressed while an inner viewer is open
\* closes the viewer and leaves activeModal; hence an Escape that directly
\* follows an Escape always ends with activeModal null: from every state with
\* a panel open at most two presses in a row close it.
C22_TwoEscapesClose ==
    /\ [][lastEvent'.type = "escape" /\ activeModal # NULL
             /\ ~(\E p \in Panels : InnerOpen(p, Cur))
             => activeModal' = NULL]_vars
    /\ [][lastEvent'.type = "escape" /\ activeModal # NULL
             /\ (\E p \in Panels : InnerOpen(p, Cur))
             => activeModal' = activeModal /\ ~(\E p \in Panels : InnerOpen(p, Cur))']_vars
    /\ [][lastEvent'.type = "escape" /\ lastEvent.type = "escape"
             => activeModal' = NULL]_vars

\* The second of two successive presses, the first of which closed the
\* certificate viewer: the certificates panel is closed.
C22_Witness ==
    /\ lastEvent.type = "escape"
    /\ pre.repeat
    /\ pre.activeModal = "certificates"
    /\ ~pre.inner
    /\ activeModal = NULL
    /\ mounted = {}

-----------------------------------------------------------------------------

\* C23: while a certificate is viewed both the certificates panel and the
\* certificate viewer have a keydown listener registered; one Escape then
\* resets viewingCertificate to none and unmounts the viewer only:
\* activeModal is still "certificates" and the panel is still mounted.
C23_OneLevelPerEscape ==
    /\ []("certviewer" \in mounted =>
             /\ viewingCertificate # NoCert
             /\ activeModal = "certificates"
             /\ {listeners[i].owner : i \in DOMAIN listeners} = {"certificates", "certviewer"}
             /\ Len(listeners) = Cardinality({"certificates", "certviewer"}))
    /\ [][lastEvent'.type = "escape" /\ "certviewer" \in mounted =>
             /\ viewingCertificate' = NoCert
             /\ activeModal' = "certificates"
             /\ mounted' = {"certificates"}]_vars

\* Escape was pressed while a certificate was viewed: the viewer is gone, the
\* certificates panel is open.
C23_Witness ==
    /\ lastEvent.type = "escape"
    /\ pre.activeModal = "certificates"
    /\ pre.inner
    /\ viewingCertificate = NoCert
    /\ activeModal = "certificates"
    /\ mounted = {"certificates"}

-----------------------------------------------------------------------------

\* C24: in every state (each is the state after a commit) the registered
\* keydown listeners are exactly one for each mounted component, none when
\* activeModal is null; the value each listener's closure holds of its
\* component's inner state (selectedItem, playingVideo, showResume,
\* viewingCertificate being set) is the current one; and an Escape pressed
\* while activeModal is null changes nothing of the program's state.
C24_ListenersCurrent ==
    /\ [](/\ {listeners[i].owner : i \in DOMAIN listeners} = mounted
          /\ Len(listeners) = Cardinality(mounted)
          /\ activeModal = NULL => listeners = <<>>
          /\ \A i \in DOMAIN listeners :
                listeners[i].inner = InnerOpen(listeners[i].owner, Cur))
    /\ [][lastEvent'.type = "escape" /\ activeModal = NULL => UNCHANGED progVars]_vars

\* The local video was started after a language toggle in the videos panel:
\* the panel's listener holds the open player.
C24_Witness ==
    /\ lastEvent.type = "videoClick"
    /\ playingVideo # NoVideo
    /\ lang = "de"
    /\ Len(listeners) = Cardinality({"videos"})
    /\ listeners[Len(listeners)].owner = "videos"
    /\ listeners[Len(listeners)].inner

-----------------------------------------------------------------------------

\* C25: in every state reachable through the user interface of Home (the
\* navigation entries, "View Experience", the back buttons and Escape)
\* activeModal is null or one of the eight identifiers with a render branch,
\* and then exactly that panel is mounted; every navigation entry's
\* identifier has a render branch, and after the activation of an entry its
\* panel is mounted.
C25_UiIdsRegistered ==
    /\ activeModal \in Panels \cup {NULL}
    /\ activeModal # NULL => Rendered(activeModal) = {activeModal}
                             /\ MountedPanels = {activeModal}
    /\ \A i \in DOMAIN LeftSections : Rendered(LeftSections[i]) = {LeftSections[i]}
    /\ \A i \in DOMAIN RightSections : Rendered(RightSections[i]) = {RightSections[i]}
    /\ lastEvent.type \in {"navigate", "openExperience"} => lastEvent.id \in mounted

\* The references entry was activated while the contact panel showed the
\* resume viewer: the references panel is mounted.
C25_Witness ==
    /\ lastEvent.type = "navigate"
    /\ lastEvent.id = "references"
    /\ pre.activeModal = "contact"
    /\ pre.inner
    /\ mounted = {"references"}

-----------------------------------------------------------------------------

\* C26: a call of openSection with an identifier that has no render branch
\* stores the identifier, so that activeModal is neither null nor one of the
\* eight identifiers; a panel that was mounted before the call is unmounted
\* with its listeners, its local state is back at the defaults and a scroll
\* lock it held is released; the language is unchanged.
C26_UnregisteredNotPreserving ==
    [][lastEvent'.type = "openSection" /\ lastEvent'.id \notin Panels =>
          /\ activeModal' = lastEvent'.id
          /\ activeModal' \notin Panels \cup {NULL}
          /\ lang' = lang
          /\ \A p \in MountedPanels :
                /\ p \notin mounted'
                /\ mounted' = {}
                /\ listeners' = <<>>
                /\ selectedItem' = NoItem
                /\ playingVideo' = NoVideo
                /\ imageErrors' = {}
                /\ viewingCertificate' = NoCert
                /\ showResume' = FALSE
                /\ pdfError' = FALSE
                /\ EffectOf(p).restores => bodyOverflow' = "unset"]_vars

\* openSection("projects") was called while the videos panel played the local
\* video: the panel and its state are gone.
C26_Witness ==
    /\ lastEvent.type = "openSection"
    /\ lastEvent.id = "projects"
    /\ pre.activeModal = "videos"
    /\ pre.inner
    /\ activeModal = "projects"
    /\ playingVideo = NoVideo
    /\ mounted = {}

-----------------------------------------------------------------------------

\* C27: in every reachable state selectedItem is none or an item of the
\* gallery without a link; the lightbox is rendered exactly when selectedItem
\* is set; and the test the registered Escape handler of the gallery panel
\* makes (selectedItem set) agrees with the lightbox being rendered.
C27_SelectedHasNoLink ==
    /\ selectedItem # NoItem =>
          selectedItem \in DOMAIN GalleryItems /\ GalleryItems[selectedItem].link = ""
    /\ LightboxRendered <=> selectedItem # NoItem
    /\ \A i \in DOMAIN listeners :
          listeners[i].owner = "gallery" =>
              ("setSelectedItem(null)" \in GalleryHandleEsc(listeners[i].inner)
                  <=> LightboxRendered)

\* A card with a link was clicked in the gallery panel: the link was opened,
\* selectedItem is none and no lightbox is rendered.
C27_Witness ==
    /\ lastEvent.type = "gallerySelect"
    /\ lastEvent.n \in DOMAIN GalleryItems
    /\ GalleryItems[lastEvent.n].link # ""
    /\ windowOpened = GalleryItems[lastEvent.n].link
    /\ "gallery" \in mounted
    /\ selectedItem = NoItem
    /\ ~LightboxRendered

-----------------------------------------------------------------------------

\* C28: a language toggle leaves the mounted components as they are and
\* changes none of selectedItem, playingVideo, imageErrors,
\* viewingCertificate, showResume and pdfError, nor activeModal; an inner
\* viewer (lightbox, player, certificate viewer, resume viewer, fallback)
\* that was rendered before the toggle is rendered after it.
C28_ToggleKeepsLocalState ==
    [][lastEvent'.type = "toggleLang" =>
          /\ lang' # lang
          /\ UNCHANGED <<mounted, activeModal, selectedItem, playingVideo, imageErrors,
                         viewingCertificate, showResume, pdfError>>
          /\ LightboxRendered' = LightboxRendered
          /\ PlayerRendered' = PlayerRendered
          /\ ResumeViewerRendered' = ResumeViewerRendered
          /\ FallbackDisplayed' = FallbackDisplayed
          /\ ("certviewer" \in mounted') = ("certviewer" \in mounted)]_vars

\* The language was toggled to German while a certificate was viewed: the
\* viewer is still open.
C28_Witness ==
    /\ lastEvent.type = "toggleLang"
    /\ lang = "de"
    /\ pre.activeModal = "certificates"
    /\ pre.inner
    /\ viewingCertificate # NoCert
    /\ mounted = {"certificates", "certviewer"}

-----------------------------------------------------------------------------

\* C29: in every reachable state viewingCertificate is none or holds the
\* certificate id of an achievement with hasCertificate, which is
\* nasa-certificate or eu-certificate; for these getCertificateContent gives a
\* document, so the certificate viewer, when mounted, has content.
C29_ViewerHasContent ==
    /\ viewingCertificate # NoCert =>
          /\ viewingCertificate.id \in {"nasa-certificate", "eu-certificate"}
          /\ \E i \in DOMAIN Achievements :
                /\ Achievements[i].hasCertificate
                /\ Achievements[i].certificateId = viewingCertificate.id
    /\ "certviewer" \in mounted => getCertificateContent(viewingCertificate.id) # NULL
    /\ \A i \in DOMAIN Achievements :
          Achievements[i].hasCertificate
              => getCertificateContent(Achievements[i].certificateId) # NULL

\* The EU certificate's "View Certificate" button was clicked: the viewer is
\* mounted with the EU document.
C29_Witness ==
    /\ lastEvent.type = "viewCertificate"
    /\ "certviewer" \in mounted
    /\ viewingCertificate # NoCert
    /\ viewingCertificate.id = "eu-certificate"
    /\ getCertificateContent(viewingCertificate.id)
          = "/assets/documents/Certificate Woord en Daad.pdf"

-----------------------------------------------------------------------------

\* C30: while the contact panel stays mounted, closing the resume viewer (by
\* its close button or by Escape) and opening it leave pdfError as it is, so
\* when the viewer is opened with pdfError true the fallback is displayed at
\* once; pdfError turns false only in a step of the iframe's load event or in
\* a step that unmounts the contact panel.
C30_ErrorOutlivesViewer ==
    /\ [][lastEvent'.type \in {"resumeClose", "viewResume"} => pdfError' = pdfError]_vars
    /\ [][lastEvent'.type = "escape" /\ ResumeViewerRendered
             => ~ResumeViewerRendered' /\ "contact" \in mounted' /\ pdfError' = pdfError]_vars
    /\ [][lastEvent'.type = "viewResume" /\ pdfError => FallbackDisplayed']_vars
    /\ [][pdfError /\ ~pdfError'
             => lastEvent'.type = "pdfLoad" \/ "contact" \notin mounted']_vars

\* The viewer was opened again after an error event and a close: the fallback
\* is displayed.
C30_Witness ==
    /\ lastEvent.type = "viewResume"
    /\ ~pre.inner
    /\ pre.activeModal = "contact"
    /\ pdfError
    /\ showResume
    /\ FallbackDisplayed

====
